---- MODULE Spec2Model ----
(***************************************************************************)
(* assets/generate_icon.py: the LAMA icon generator.                       *)
(*                                                                         *)
(* The script is one linear pass: allocate a canvas, draw a circle, pick   *)
(* a font through a try/except chain, draw four shadow+glyph pairs, make   *)
(* the output directory, save the canvas, save six resized copies, print.  *)
(*                                                                         *)
(* An image is modelled by its dimensions and the sequence of drawing      *)
(* operations (with all their arguments) applied to it: the pixels are a   *)
(* function of that history.  The file system is the state of the path     *)
(* <script dir>/icons: absent, a regular file, or a directory holding      *)
(* named files.  os.makedirs and Image.save may raise; nothing in the      *)
(* script catches that, so the process ends there.  A save that raises     *)
(* is modelled as failing to open its target (the file system is left as   *)
(* it was).  The script may be run again on the directory an earlier run   *)
(* left behind.                                                            *)
(***************************************************************************)
EXTENDS Integers, Sequences, FiniteSets, TLC

VARIABLES
  pc,        \* position of the script
  img,       \* the canvas
  font,      \* the selected font
  i,         \* index of the letter loop
  k,         \* index of the sizes loop (1-based)
  resized,   \* the buffer of the last resize
  fs,        \* the path <script dir>/icons
  out,       \* standard output of this run
  tried,     \* history: the font attempts of this run and their outcomes
  events,    \* history: the visible steps of this run that succeeded
  written,   \* history: the names of the files this run wrote, in order
  raised,    \* history: where an exception was raised in this run ("" if none)
  fs0,       \* history: fs when this run started
  run,       \* number of this run
  prev       \* history: what the previous run did

vars == << pc, img, font, i, k, resized, fs, out, tried, events, written,
           raised, fs0, run, prev >>

\* Number of runs of the script in one behaviour.
MaxRuns == 2

(***************************************************************************)
(* Constants of the script                                                 *)
(***************************************************************************)
size == 1024

background == <<10, 10, 10, 255>>

center == size \div 2

radius == 450

ellipse_fill == <<20, 20, 20, 255>>

ellipse_outline == <<40, 40, 40, 255>>

ellipse_width == 2

letters ==
  << [letter |-> "L", color |-> <<"#", "e", "f", "4", "4", "4", "4">>],
     [letter |-> "A", color |-> <<"#", "e", "a", "b", "3", "0", "8">>],
     [letter |-> "M", color |-> <<"#", "2", "2", "c", "5", "5", "e">>],
     [letter |-> "A", color |-> <<"#", "a", "8", "5", "5", "f", "7">>] >>

Helvetica == "/System/Library/Fonts/Helvetica.ttc"

Avenir == "/System/Library/Fonts/Avenir.ttc"

font_size == 280

DefaultFont == [path |-> "load_default", size |-> 0]

NoFont == [path |-> "", size |-> 0]

\* ImageFont.truetype(path, size) when it succeeds.
truetype(path, sz) == [path |-> path, size |-> sz]

letter_spacing == 200

total_width == letter_spacing * (Len(letters) - 1)

start_x_no_halving == center - total_width

start_x == center - total_width \div 2

y_pos == center - 20

shadow_offset == 4

shadow_fill == <<0, 0, 0, 128>>

sizes == <<16, 32, 64, 128, 256, 512>>

script_dir == "assets"

\* os.path.join
PathJoin(a, b) == a \o "/" \o b

output_dir == PathJoin(script_dir, "icons")

icon_name == "icon.png"

ExportNameNoInterpolation(n) == "icon-{icon_size}.png"

\* f'icon-{icon_size}.png'
ExportName(n) == "icon-" \o ToString(n) \o ".png"

ConfirmationLine == "Icons generated successfully in " \o output_dir

(***************************************************************************)
(* Pure helpers                                                            *)
(***************************************************************************)
\* The value of one hexadecimal digit, as int(c, 16) reads it.
HexDigit(c) ==
  CASE c = "0" -> 0  [] c = "1" -> 1  [] c = "2" -> 2  [] c = "3" -> 3
    [] c = "4" -> 4  [] c = "5" -> 5  [] c = "6" -> 6  [] c = "7" -> 7
    [] c = "8" -> 8  [] c = "9" -> 9  [] c = "a" -> 10 [] c = "b" -> 11
    [] c = "c" -> 12 [] c = "d" -> 13 [] c = "e" -> 14 [] c = "f" -> 15

RECURSIVE Int16(_)
\* int(s, 16) for a sequence of hexadecimal digits.
Int16(s) ==
  IF s = <<>> THEN 0
  ELSE 16 * Int16(SubSeq(s, 1, Len(s) - 1)) + HexDigit(s[Len(s)])

\* The Python slice s[a:b] (0-based, b exclusive).
Slice(s, a, b) == SubSeq(s, a + 1, b)

\* (r, g, b, 255) from '#rrggbb'.
HexToRGBA(color) ==
  << Int16(Slice(color, 1, 3)), Int16(Slice(color, 3, 5)),
     Int16(Slice(color, 5, 7)), 255 >>

XPosOneBased(idx) == start_x + (idx + 1) * letter_spacing

\* x of the glyph with 0-based index idx.
XPos(idx) == start_x + idx * letter_spacing

\* draw.text for the shadow of glyph idx.
ShadowOp(idx, f) ==
  [ op |-> "text", xy |-> <<XPos(idx) + shadow_offset, y_pos + shadow_offset>>,
    text |-> letters[idx + 1].letter, fill |-> shadow_fill,
    font |-> f, anchor |-> "mm" ]

\* draw.text for glyph idx.
LetterOp(idx, f) ==
  [ op |-> "text", xy |-> <<XPos(idx), y_pos>>,
    text |-> letters[idx + 1].letter,
    fill |-> HexToRGBA(letters[idx + 1].color),
    font |-> f, anchor |-> "mm" ]

EllipseOp ==
  [ op |-> "ellipse",
    box |-> <<center - radius, center - radius, center + radius, center + radius>>,
    fill |-> ellipse_fill, outline |-> ellipse_outline, width |-> ellipse_width ]

NoImage == [w |-> 0, h |-> 0, ops |-> <<>>]

\* Image.new(mode, (w, h), color)
NewImage(mode, wh, color) ==
  [ w |-> wh[1], h |-> wh[2],
    ops |-> << [op |-> "new", mode |-> mode, size |-> wh, color |-> color] >> ]

\* The image with one more drawing operation applied in place.
Drawn(im, o) == [im EXCEPT !.ops = Append(@, o)]

ResizeKeepHeight(im, wh, filter) ==
  [ w |-> wh[1], h |-> im.h,
    ops |-> Append(im.ops, [op |-> "resize", from |-> <<im.w, im.h>>,
                            to |-> <<wh[1], im.h>>, filter |-> filter]) ]

\* im.resize((w, h), filter): a new buffer, im is left as it is.
Resize(im, wh, filter) ==
  [ w |-> wh[1], h |-> wh[2],
    ops |-> Append(im.ops, [op |-> "resize", from |-> <<im.w, im.h>>,
                            to |-> wh, filter |-> filter]) ]

PngFileStamped(im) ==
  [ format |-> "PNG", w |-> im.w, h |-> im.h,
    ops |-> Append(im.ops, [op |-> "tIME", stamp |-> run]) ]

\* What a file written by im.save(path, 'PNG') holds.
PngFile(im) == [format |-> "PNG", w |-> im.w, h |-> im.h, ops |-> im.ops]

\* A file that was in the directory before the script ran.
OldFile == [format |-> "old", w |-> 0, h |-> 0, ops |-> <<>>]

NoFiles == [n \in {} |-> OldFile]

\* The directory's files with file n (over)written.
Put(files, n, c) ==
  [x \in (DOMAIN files) \cup {n} |-> IF x = n THEN c ELSE files[x]]

\* Names that may be in the directory before the first run.
PreNames == {"icon.icns", "icon.png", "icon-16.png"}

Range(s) == {s[j] : j \in 1..Len(s)}

NoPrev == [pc |-> "none", font |-> NoFont, ops |-> <<>>, files |-> NoFiles,
           out |-> <<>>]

Fresh ==
  /\ pc = "new"
  /\ img = NoImage
  /\ font = NoFont
  /\ i = 0
  /\ k = 1
  /\ resized = NoImage
  /\ out = <<>>
  /\ tried = <<>>
  /\ events = <<>>
  /\ written = <<>>
  /\ raised = ""

Init ==
  /\ Fresh
  /\ fs \in ( { [kind |-> "absent", files |-> NoFiles],
                [kind |-> "file", files |-> NoFiles] }
              \cup { [kind |-> "dir", files |-> [n \in S |-> OldFile]]
                     : S \in SUBSET PreNames } )
  /\ fs0 = fs
  /\ run = 1
  /\ prev = NoPrev

(***************************************************************************)
(* Control flow                                                            *)
(***************************************************************************)
AfterHelveticaUnnested(ok) == "font2"

\* Lines 35-39: the first except clause is entered only on failure.
AfterHelvetica(ok) == IF ok THEN "shadow" ELSE "font2"

AfterAvenirNoFallback(ok) == IF ok THEN "shadow" ELSE "failed"

\* Lines 39-43: the inner except clause is entered only on failure.
AfterAvenir(ok) == IF ok THEN "shadow" ELSE "font3"

AfterIOSwallowed(ok, next) == next

\* An exception of save or makedirs is not caught: the process ends.
AfterIO(ok, next) == IF ok THEN next ELSE "failed"

AfterExportStopsEarly(j) == IF j < Len(sizes) - 1 THEN "resize" ELSE "print"

\* Line 75: the for loop over sizes.
AfterExport(j) == IF j < Len(sizes) THEN "resize" ELSE "print"

\* Line 52: the for loop over letters.
AfterLetter(idx) == IF idx < Len(letters) - 1 THEN "shadow" ELSE "makedirs"

ResizeSourceChained == IF resized = NoImage THEN img ELSE resized

\* Line 76: the image that is resized.
ResizeSource == img

(***************************************************************************)
(* Steps of the script                                                     *)
(***************************************************************************)
\* Line 13
CreateCanvas ==
  /\ pc = "new"
  /\ img' = NewImage("RGBA", <<size, size>>, background)
  /\ events' = Append(events, "new")
  /\ pc' = "ellipse"
  /\ UNCHANGED << font, i, k, resized, fs, out, tried, written, raised, fs0,
                  run, prev >>

\* Lines 19-24
DrawEllipse ==
  /\ pc = "ellipse"
  /\ img' = Drawn(img, EllipseOp)
  /\ events' = Append(events, "ellipse")
  /\ pc' = "font1"
  /\ UNCHANGED << font, i, k, resized, fs, out, tried, written, raised, fs0,
                  run, prev >>

\* Lines 35-38
TryHelvetica ==
  /\ pc = "font1"
  /\ \E ok \in BOOLEAN :
       /\ font' = IF ok THEN truetype(Helvetica, font_size) ELSE font
       /\ tried' = Append(tried, [name |-> Helvetica, ok |-> ok])
       /\ pc' = AfterHelvetica(ok)
  /\ UNCHANGED << img, i, k, resized, fs, out, events, written, raised, fs0,
                  run, prev >>

\* Lines 39-41
TryAvenir ==
  /\ pc = "font2"
  /\ \E ok \in BOOLEAN :
       /\ font' = IF ok THEN truetype(Avenir, font_size) ELSE font
       /\ tried' = Append(tried, [name |-> Avenir, ok |-> ok])
       /\ pc' = AfterAvenir(ok)
       /\ raised' = IF pc' = "failed" THEN "font" ELSE raised
  /\ UNCHANGED << img, i, k, resized, fs, out, events, written, fs0, run,
                  prev >>

\* Lines 42-43
LoadDefault ==
  /\ pc = "font3"
  /\ font' = DefaultFont
  /\ tried' = Append(tried, [name |-> DefaultFont.path, ok |-> TRUE])
  /\ pc' = "shadow"
  /\ UNCHANGED << img, i, k, resized, fs, out, events, written, raised, fs0,
                  run, prev >>

\* Lines 52-56
DrawShadow ==
  /\ pc = "shadow"
  /\ img' = Drawn(img, ShadowOp(i, font))
  /\ events' = Append(events, "shadow" \o ToString(i))
  /\ pc' = "letter"
  /\ UNCHANGED << font, i, k, resized, fs, out, tried, written, raised, fs0,
                  run, prev >>

\* Lines 58-63, and the loop's advance
DrawLetter ==
  /\ pc = "letter"
  /\ img' = Drawn(img, LetterOp(i, font))
  /\ events' = Append(events, "letter" \o ToString(i))
  /\ pc' = AfterLetter(i)
  /\ i' = IF pc' = "shadow" THEN i + 1 ELSE i
  /\ UNCHANGED << font, k, resized, fs, out, tried, written, raised, fs0,
                  run, prev >>

\* Lines 66-67: os.makedirs(output_dir, exist_ok=True)
MakeDirs ==
  /\ pc = "makedirs"
  /\ \E ok \in BOOLEAN :
       \* an existing directory never fails; a regular file at the path
       \* always does; creating a missing directory may fail
       /\ fs.kind = "dir" => ok
       /\ fs.kind = "file" => ~ok
       /\ fs' = IF ok /\ fs.kind = "absent"
                THEN [kind |-> "dir", files |-> NoFiles] ELSE fs
       /\ events' = IF ok THEN Append(events, "makedirs") ELSE events
       /\ raised' = IF ok THEN raised ELSE "makedirs"
       /\ pc' = AfterIO(ok, "save_main")
  /\ UNCHANGED << img, font, i, k, resized, out, tried, written, fs0, run,
                  prev >>

\* Lines 70-71: img.save(icon_path, 'PNG')
SaveMain ==
  /\ pc = "save_main"
  /\ \E ok \in BOOLEAN :
       /\ fs' = IF ok THEN [fs EXCEPT !.files = Put(@, icon_name, PngFile(img))]
                ELSE fs
       /\ written' = IF ok THEN Append(written, icon_name) ELSE written
       /\ events' = IF ok THEN Append(events, "save " \o icon_name) ELSE events
       /\ raised' = IF ok THEN raised ELSE icon_name
       /\ pc' = AfterIO(ok, "resize")
  /\ UNCHANGED << img, font, i, k, resized, out, tried, fs0, run, prev >>

\* Line 76: resized = img.resize((icon_size, icon_size), LANCZOS)
ResizeStep ==
  /\ pc = "resize"
  /\ resized' = Resize(ResizeSource, <<sizes[k], sizes[k]>>, "LANCZOS")
  /\ pc' = "save_resized"
  /\ UNCHANGED << img, font, i, k, fs, out, tried, events, written, raised,
                  fs0, run, prev >>

\* Line 77: resized.save(<output_dir>/icon-<icon_size>.png, 'PNG'), and the
\* loop's advance
SaveResized ==
  /\ pc = "save_resized"
  /\ \E ok \in BOOLEAN :
       LET name == ExportName(sizes[k]) IN
       /\ fs' = IF ok THEN [fs EXCEPT !.files = Put(@, name, PngFile(resized))]
                ELSE fs
       /\ written' = IF ok THEN Append(written, name) ELSE written
       /\ events' = IF ok THEN Append(events, "save " \o name) ELSE events
       /\ raised' = IF ok THEN raised ELSE name
       /\ pc' = AfterIO(ok, AfterExport(k))
       /\ k' = IF pc' = "resize" THEN k + 1 ELSE k
  /\ UNCHANGED << img, font, i, resized, out, tried, fs0, run, prev >>

\* Line 79
PrintDone ==
  /\ pc = "print"
  /\ out' = Append(out, ConfirmationLine)
  /\ events' = Append(events, "print")
  /\ pc' = "done"
  /\ UNCHANGED << img, font, i, k, resized, fs, tried, written, raised, fs0,
                  run, prev >>

Terminated == pc \in {"done", "failed"}

\* The script is started again; the directory is as the last run left it.
Restart ==
  /\ Terminated
  /\ run < MaxRuns
  /\ run' = run + 1
  /\ prev' = [ pc |-> pc, font |-> font, ops |-> img.ops, out |-> out,
               files |-> [n \in Range(written) |-> fs.files[n]] ]
  /\ fs0' = fs
  /\ pc' = "new"
  /\ img' = NoImage
  /\ font' = NoFont
  /\ i' = 0
  /\ k' = 1
  /\ resized' = NoImage
  /\ out' = <<>>
  /\ tried' = <<>>
  /\ events' = <<>>
  /\ written' = <<>>
  /\ raised' = ""
  /\ UNCHANGED fs

Step ==
  \/ CreateCanvas
  \/ DrawEllipse
  \/ TryHelvetica
  \/ TryAvenir
  \/ LoadDefault
  \/ DrawShadow
  \/ DrawLetter
  \/ MakeDirs
  \/ SaveMain
  \/ ResizeStep
  \/ SaveResized
  \/ PrintDone

Next == Step \/ Restart

Spec == Init /\ [][Next]_vars

\* The interpreter runs the script to its end: a started run keeps stepping.
FairSpec == Spec /\ WF_vars(Step)

(***************************************************************************)
(* Vocabulary of the properties                                            *)
(***************************************************************************)
OutputOrder ==
  << "icon.png", "icon-16.png", "icon-32.png", "icon-64.png", "icon-128.png",
     "icon-256.png", "icon-512.png" >>

OutputNames == Range(OutputOrder)

ExportDims == {16, 32, 64, 128, 256, 512}

DirNames == DOMAIN fs.files

IsPrefix(s, t) == Len(s) <= Len(t) /\ s = SubSeq(t, 1, Len(s))

TextOps == SelectSeq(img.ops, LAMBDA o : o.op = "text")

GlyphOps == SelectSeq(img.ops, LAMBDA o : o.op = "text" /\ o.fill[4] = 255)

AllCandidatesFailed ==
  Len(tried) >= 2 /\ ~tried[1].ok /\ ~tried[2].ok

IOFailed == pc = "failed" /\ raised \in ({"makedirs"} \cup OutputNames)

FontChosen ==
  pc \in { "shadow", "letter", "makedirs", "save_main", "resize",
           "save_resized", "print", "done", "failed" }

DrawingDone ==
  pc \in { "makedirs", "save_main", "resize", "save_resized", "print", "done",
           "failed" }

ExpectedEvents ==
  << "new", "ellipse", "shadow0", "letter0", "shadow1", "letter1", "shadow2",
     "letter2", "shadow3", "letter3", "makedirs", "save icon.png",
     "save icon-16.png", "save icon-32.png", "save icon-64.png",
     "save icon-128.png", "save icon-256.png", "save icon-512.png", "print" >>

(***************************************************************************)
(* Properties                                                              *)
(***************************************************************************)

\* C1 as stated: after a run that reaches its end the directory icons
\* holds exactly the 7 files icon.png and icon-N.png, N in {16, ..., 512},
\* also when the directory existed before the run.
C1_DirHoldsExactlySeven ==
  pc = "done" => fs.kind = "dir" /\ DirNames = OutputNames

\* C1 as amended: a run that reaches its end has written exactly the 7 files
\* icon.png and icon-N.png, each once; the directory then holds these 7
\* together with every file it held when the run started, and the files of
\* other names are as they were.
C1_RunWritesExactlySeven ==
  pc = "done" =>
    /\ fs.kind = "dir"
    /\ Len(written) = 7
    /\ Range(written) = OutputNames
    /\ DirNames = OutputNames \cup DOMAIN fs0.files
    /\ \A n \in (DOMAIN fs0.files) \ OutputNames : fs.files[n] = fs0.files[n]

C1_Witness ==
  pc = "done" /\ fs0.kind = "dir" /\ "icon.icns" \in DOMAIN fs0.files

\* C2: every file the run has written holds a square PNG image whose width
\* and height are the dimension its name advertises: 1024 for icon.png, N
\* for icon-N.png.
C2_SquareAsAdvertised ==
  \A j \in 1..Len(written) :
    LET n == written[j]
        f == fs.files[n]
    IN  /\ n \in DirNames
        /\ f.format = "PNG"
        /\ f.w = f.h
        /\ \/ n = "icon.png" /\ f.w = 1024
           \/ \E d \in ExportDims :
                n = "icon-" \o ToString(d) \o ".png" /\ f.w = d

C2_Witness == Len(written) = 7 /\ fs.files["icon-16.png"].w = 16

\* C3: when both candidate fonts fail to load the run does not end there:
\* the built-in default font is selected, no exception comes from the font
\* chain, the run goes on to end either at the confirmation line with all 7
\* files written or at an exception of makedirs or of a file write.
C3_FontFailureNotFatal ==
  /\ [](AllCandidatesFailed =>
          /\ pc = "font3" \/ font = DefaultFont
          /\ raised # "font"
          /\ pc = "failed" => IOFailed
          /\ pc = "done" =>
               /\ Range(written) = OutputNames
               /\ out = << "Icons generated successfully in assets/icons" >>)
  /\ [](AllCandidatesFailed => <>(pc = "done" \/ IOFailed))

C3_Witness ==
  AllCandidatesFailed /\ font = DefaultFont /\ pc = "done" /\ Len(written) = 7

\* C4: the x positions of the four glyphs are symmetric about the canvas
\* centre 512: x(i) + x(3 - i) = 1024 for every i.
C4_Symmetric ==
  Len(GlyphOps) = 4 =>
    \A j \in 1..4 : GlyphOps[j].xy[1] + GlyphOps[5 - j].xy[1] = 2 * 512

C4_Witness == Len(GlyphOps) = 4 /\ pc = "makedirs"

\* C5: the glyphs L, A, M, A are drawn in this order at x = 212, 412, 612,
\* 812 (offsets -300, -100, +100, +300 from the centre) and y = 492, each
\* right after its shadow, which is drawn at the glyph's position shifted by
\* (+4, +4).
C5_GlyphPositions ==
  LET t == TextOps
      glyph == << "L", "A", "M", "A" >>
      off == << -300, -100, 100, 300 >>
  IN  /\ Len(t) <= 8
      /\ \A j \in 1..Len(t) :
           LET g == (j + 1) \div 2
               x == 512 + off[g]
           IN  /\ t[j].text = glyph[g]
               /\ t[j].xy = IF j % 2 = 1 THEN << x + 4, 492 + 4 >>
                                         ELSE << x, 492 >>
               /\ x \in {212, 412, 612, 812}

C5_Witness == Len(TextOps) = 8 /\ pc = "save_main"

\* C6: a run that selected the same font as the run before it performs the
\* same drawing operations with the same arguments, and every file both
\* runs wrote has the same content; two such runs that reach their end
\* wrote the same files and printed the same line.
C6_Deterministic ==
  (run > 1 /\ font # NoFont /\ font = prev.font) =>
    /\ IsPrefix(img.ops, prev.ops)
    /\ DrawingDone => img.ops = prev.ops
    /\ \A n \in Range(written) \cap DOMAIN prev.files :
         fs.files[n] = prev.files[n]
    /\ (pc = "done" /\ prev.pc = "done") =>
         /\ Range(written) = DOMAIN prev.files
         /\ out = prev.out

C6_Witness ==
  /\ run > 1 /\ font # NoFont /\ font = prev.font
  /\ pc = "done" /\ prev.pc = "done"
  /\ Len(written) = 7 /\ DOMAIN prev.files = Range(written)

\* C7: makedirs on an existing directory succeeds and changes nothing; a
\* file write that fails ends the run at that write: the files written
\* before it stay as they are, no later file is written and the
\* confirmation line is not printed.
C7_WriteFailureFatal ==
  /\ [](raised \in OutputNames =>
          /\ pc = "failed"
          /\ out = <<>>
          /\ \E m \in 0..6 :
               /\ written = SubSeq(OutputOrder, 1, m)
               /\ raised = OutputOrder[m + 1]
          /\ \A n \in Range(written) : n \in DirNames)
  /\ [][ /\ (pc = "makedirs" /\ fs.kind = "dir") =>
              (fs' = fs /\ pc' = "save_main" /\ raised' = "")
         /\ (raised = "" /\ raised' \in OutputNames) =>
              (fs' = fs /\ written' = written /\ out' = out)
         /\ raised \in OutputNames => fs' = fs ]_vars

C7_Witness ==
  /\ pc = "failed" /\ raised = "icon-64.png" /\ Len(written) = 3
  /\ fs0.kind = "dir"

\* C8: the font attempts of a run are Helvetica, then Avenir only after
\* Helvetica failed, then the default font only after both failed; no
\* attempt follows a success, and once the chain is left exactly one font,
\* the one of the last attempt, is selected.
C8_FontChain ==
  /\ Len(tried) <= 3
  /\ Len(tried) >= 1 => tried[1].name = "/System/Library/Fonts/Helvetica.ttc"
  /\ Len(tried) >= 2 =>
       tried[2].name = "/System/Library/Fonts/Avenir.ttc" /\ ~tried[1].ok
  /\ Len(tried) >= 3 =>
       tried[3].name = "load_default" /\ ~tried[2].ok /\ tried[3].ok
  /\ \A j \in 1..(Len(tried) - 1) : ~tried[j].ok
  /\ FontChosen =>
       /\ Len(tried) >= 1
       /\ tried[Len(tried)].ok
       /\ font.path = tried[Len(tried)].name
  /\ ~FontChosen => font = NoFont

C8_Witness ==
  pc = "done" /\ Len(tried) = 2 /\ tried[2].ok /\ font.path = Avenir

\* C9: the visible steps of a run happen in one order: canvas, circle, four
\* shadow-then-glyph pairs, makedirs, icon.png, the exports 16 to 512, the
\* confirmation line; each at most once and none before its predecessors;
\* the line is printed once, after all 7 files; every run terminates.
C9_FixedOrder ==
  /\ [](/\ IsPrefix(events, ExpectedEvents)
        /\ (pc = "done") <=> (events = ExpectedEvents)
        /\ Len(out) <= 1
        /\ (Len(out) = 1) <=> (events = ExpectedEvents)
        /\ IsPrefix(written, OutputOrder))
  /\ [](~Terminated => <>Terminated)

C9_Witness == pc = "done" /\ events = ExpectedEvents /\ Len(out) = 1

\* C10: once icon.png is saved the canvas does not change for the rest of
\* the run, and every export written holds the saved base image followed by
\* exactly one resize, from 1024x1024 to its own dimension.
C10_ExportsFromBase ==
  /\ [](\A d \in ExportDims :
          LET n == "icon-" \o ToString(d) \o ".png" IN
          (n \in Range(written)) =>
            LET f == fs.files[n]
                b == fs.files["icon.png"]
            IN  /\ "icon.png" \in Range(written)
                /\ b.ops = img.ops
                /\ b.w = 1024 /\ b.h = 1024
                /\ f.ops = Append(b.ops, [ op |-> "resize",
                                           from |-> << 1024, 1024 >>,
                                           to |-> << d, d >>,
                                           filter |-> "LANCZOS" ]))
  /\ [][ ("icon.png" \in Range(written) /\ run' = run) => img' = img ]_vars

C10_Witness == Len(written) = 7 /\ pc = "print" /\ resized.w = 512

====
